---- MODULE Spec2Model ----
(***************************************************************************)
(* Best-first graph search (uniform-cost and A-star) for the sliding-tile   *)
(* puzzle of Project1_NuoXu.py.                                            *)
(*                                                                         *)
(* A configuration is a list of rows; rows and columns are numbered from 1 *)
(* here (Python numbers them from 0), which changes no difference of two   *)
(* coordinates.  Search nodes live in the arena `nodes`; a node is named   *)
(* by its index in the arena, and parent = 0 stands for Python's None.     *)
(***************************************************************************)
EXTENDS Integers, Sequences, FiniteSets, TLC

\* ------------------------------------------------------------------ bounds
\* Inputs on the 3x3 grid are the configurations at most MaxScramble blank
\* moves away from the goal; inputs on the 2x2 grid are all 24 arrangements.
MaxScramble == 3

\* A session of the main program makes at most MaxRuns calls of general_search.
MaxRuns == 3

\* How far from its goal a session's puzzle starts.
SessionScramble == 1

\* ------------------------------------------------------------- arithmetic
Abs(x) == IF x < 0 THEN -x ELSE x

Max(a, b) == IF a > b THEN a ELSE b

\* ------------------------------------------------------------- node record
None == 0

PuzzleNode(state, parent, action, g_cost, h_cost) ==
    [state  |-> state,
     parent |-> parent,
     action |-> action,
     g_cost |-> g_cost,
     h_cost |-> h_cost,
     f_cost |-> g_cost + h_cost]

\* The comparison made on the heuristic estimate alone.
Lt_by_h(self, other) == self.h_cost < other.h_cost

\* Ties on f_cost broken the other way: the larger g_cost first.
Lt_deeper_first(self, other) ==
    IF self.f_cost = other.f_cost
    THEN self.g_cost > other.g_cost
    ELSE self.f_cost < other.f_cost

\* The comparison turned round: the larger f_cost counts as the smaller node.
Lt_reversed(self, other) ==
    IF self.f_cost = other.f_cost
    THEN self.g_cost < other.g_cost
    ELSE self.f_cost > other.f_cost

\* PuzzleNode.__lt__: order by f_cost, ties by g_cost (smaller first).
Lt(self, other) ==
    IF self.f_cost = other.f_cost
    THEN self.g_cost < other.g_cost
    ELSE self.f_cost < other.f_cost

\* ------------------------------------------------------------------ grids
\* All cells (r, c) with r, c in range(len(state)), as the loops visit them.
Cells(state) == (1..Len(state)) \X (1..Len(state))

\* Row-major rank of a cell, the order in which the nested loops reach it.
Rank(state, rc) == (rc[1] - 1) * Len(state) + rc[2]

\* find_blank: the first cell holding 0 in row-major order, or <<>> (None).
find_blank(state) ==
    LET hits == {rc \in Cells(state) : state[rc[1]][rc[2]] = 0}
    IN  IF hits = {} THEN <<>>
        ELSE CHOOSE rc \in hits :
                \A o \in hits : Rank(state, rc) <= Rank(state, o)

\* state_to_tuple: rebuilds the grid row by row as a tuple of tuples.
state_to_tuple(state) ==
    [r \in 1..Len(state) |-> [c \in 1..Len(state[r]) |-> state[r][c]]]

\* ------------------------------------------------------------- heuristics
no_heuristic(state, goal_state) == 0

\* The count without the test for the blank: a misplaced blank counts too.
misplaced_counts_blank(state, goal_state) ==
    Cardinality({rc \in Cells(state) :
                    state[rc[1]][rc[2]] # goal_state[rc[1]][rc[2]]})

misplaced_tile_heuristic(state, goal_state) ==
    Cardinality({rc \in Cells(state) :
                    /\ state[rc[1]][rc[2]] # 0
                    /\ state[rc[1]][rc[2]] # goal_state[rc[1]][rc[2]]})

\* The mapping with row and column stored the other way round: (c, r).
precompute_goal_pos_transposed(goal_state) ==
    [t \in {goal_state[rc[1]][rc[2]] : rc \in Cells(goal_state)} |->
        LET rc == CHOOSE rc \in Cells(goal_state) :
                     goal_state[rc[1]][rc[2]] = t
        IN  <<rc[2], rc[1]>>]

\* precompute_goal_pos: a fresh dict; a later assignment to the same key
\* overwrites an earlier one, so each key keeps its last cell in loop order.
precompute_goal_pos(goal_state) ==
    LET keys == {goal_state[rc[1]][rc[2]] : rc \in Cells(goal_state)}
        last(t) == CHOOSE rc \in Cells(goal_state) :
                      /\ goal_state[rc[1]][rc[2]] = t
                      /\ \A o \in Cells(goal_state) :
                            goal_state[o[1]][o[2]] = t
                               => Rank(goal_state, o) <= Rank(goal_state, rc)
    IN  [t \in keys |-> last(t)]

\* The lookup goal_pos[tile] raises KeyError for a tile that is no key.
manhattan_raises(state, goal_state, gp) ==
    \E rc \in Cells(goal_state) :
        /\ state[rc[1]][rc[2]] # 0
        /\ state[rc[1]][rc[2]] \notin DOMAIN gp

RECURSIVE manhattan_sum(_, _, _, _)
manhattan_sum(state, goal_state, gp, k) ==
    IF k = 0 THEN 0
    ELSE LET len  == Len(goal_state)
             r    == ((k - 1) \div len) + 1
             c    == ((k - 1) % len) + 1
             tile == state[r][c]
             d    == IF tile # 0
                     THEN Abs(r - gp[tile][1]) + Abs(c - gp[tile][2])
                     ELSE 0
         IN  manhattan_sum(state, goal_state, gp, k - 1) + d

\* The sum without the test for the blank: the blank's distance is added.
manhattan_with_blank(state, goal_state, gp) ==
    LET blank == find_blank(state)
    IN  manhattan_sum(state, goal_state, gp, Len(goal_state) * Len(goal_state))
           + Abs(blank[1] - gp[0][1]) + Abs(blank[2] - gp[0][2])

manhattan_distance_heuristic(state, goal_state, gp) ==
    manhattan_sum(state, goal_state, gp, Len(goal_state) * Len(goal_state))

Heuristics ==
    {"no_heuristic", "misplaced_tile_heuristic", "manhattan_distance_heuristic"}

\* heuristic_func(state, goal_state), with the global goal_pos it may read.
heuristic_call(heuristic_func, state, goal_state, gp) ==
    CASE heuristic_func = "no_heuristic" ->
            no_heuristic(state, goal_state)
      [] heuristic_func = "misplaced_tile_heuristic" ->
            misplaced_tile_heuristic(state, goal_state)
      [] heuristic_func = "manhattan_distance_heuristic" ->
            manhattan_distance_heuristic(state, goal_state, gp)

heuristic_raises(heuristic_func, state, goal_state, gp) ==
    /\ heuristic_func = "manhattan_distance_heuristic"
    /\ manhattan_raises(state, goal_state, gp)

\* ------------------------------------------------------ successor function
\* The move table with Down tried before Up.
moves_down_first ==
    << [dr |-> 1,  dc |-> 0,  action |-> "Down"],
       [dr |-> -1, dc |-> 0,  action |-> "Up"],
       [dr |-> 0,  dc |-> -1, action |-> "Left"],
       [dr |-> 0,  dc |-> 1,  action |-> "Right"] >>

moves ==
    << [dr |-> -1, dc |-> 0,  action |-> "Up"],
       [dr |-> 1,  dc |-> 0,  action |-> "Down"],
       [dr |-> 0,  dc |-> -1, action |-> "Left"],
       [dr |-> 0,  dc |-> 1,  action |-> "Right"] >>

\* Two assignments in a row instead of a swap: the destination gets the
\* blank, and the blank's cell then reads the destination again.
swap_overwrite(state, br, bc, nr, nc) ==
    [r \in 1..Len(state) |->
        [c \in 1..Len(state[r]) |->
            IF r = nr /\ c = nc THEN state[br][bc]
            ELSE state[r][c]]]

\* The grid after swapping the blank at (br, bc) with the cell (nr, nc).
swap(state, br, bc, nr, nc) ==
    [r \in 1..Len(state) |->
        [c \in 1..Len(state[r]) |->
            IF r = br /\ c = bc THEN state[nr][nc]
            ELSE IF r = nr /\ c = nc THEN state[br][bc]
            ELSE state[r][c]]]

\* The bounds test with the last column cut off: no move to the right.
legal_moves_no_right(state) ==
    LET blank == find_blank(state)
        within(m) == /\ blank[1] + m.dr \in 1..Len(state)
                     /\ blank[2] + m.dc \in 1..Len(state)
                     /\ m.dc <= 0
    IN  SelectSeq(moves, within)

\* The moves of `moves`, in order, whose destination lies within the grid.
legal_moves(state) ==
    LET blank == find_blank(state)
        within(m) == /\ blank[1] + m.dr \in 1..Len(state)
                     /\ blank[2] + m.dc \in 1..Len(state)
    IN  SelectSeq(moves, within)

\* expand: the successor nodes of the node `id` of the arena, in move order.
expand(node, id, goal_state, heuristic_func, gp) ==
    LET state == node.state
        blank == find_blank(state)
        ms    == legal_moves(state)
        new_state(m) ==
            swap(state, blank[1], blank[2], blank[1] + m.dr, blank[2] + m.dc)
    IN  [k \in 1..Len(ms) |->
            PuzzleNode(new_state(ms[k]), id, ms[k].action, node.g_cost + 1,
                       heuristic_call(heuristic_func, new_state(ms[k]),
                                      goal_state, gp))]

\* expand raises when find_blank returned None (the unpacking into
\* blank_r, blank_c fails) or when a heuristic call raises.
expand_raises(node, goal_state, heuristic_func, gp) ==
    LET state == node.state
        blank == find_blank(state)
        ms    == legal_moves(state)
    IN  \/ blank = <<>>
        \/ \E k \in 1..Len(ms) :
              heuristic_raises(heuristic_func,
                  swap(state, blank[1], blank[2],
                       blank[1] + ms[k].dr, blank[2] + ms[k].dc),
                  goal_state, gp)

\* The identity of the caller's list initial_state.  The root node is built
\* on that very list; every other node's list is the one made for it.
CallerGrid == 0

\* The assignment without the copy: new_state is the parent's own list.
deepcopy_alias(obj, fresh) == obj

\* copy.deepcopy(state): a new list object, told apart by a fresh identity.
deepcopy(obj, fresh) == fresh

\* The list object of each node once expand has run on the node `id`: the
\* k-th successor refers to the list that deepcopy made for it.
new_grids(gs, id, count) ==
    gs \o [k \in 1..count |-> deepcopy(gs[id], Len(gs) + k)]

\* The in-place swap of expand lands in the list object new_state: every
\* node that refers to that object reads the written grid afterwards.
RECURSIVE write_states(_, _, _)
write_states(ns, gs, successors) ==
    IF successors = <<>> THEN ns
    ELSE LET obj     == gs[Len(gs) - Len(successors) + 1]
             written == [k \in 1..Len(ns) |->
                            IF gs[k] = obj
                            THEN [ns[k] EXCEPT !.state = Head(successors).state]
                            ELSE ns[k]]
         IN  write_states(written, gs, Tail(successors))

goal_test(state, goal_state) == state = goal_state

\* The explored check and the expansion placed before the goal test.
step_kind_late_goal(state, goal_state, expl) ==
    IF state_to_tuple(state) \in expl
    THEN IF goal_test(state, goal_state) THEN "goal" ELSE "skip"
    ELSE "expand"

\* The explored check at the pop left out: every non-goal node is expanded.
step_kind_no_skip(state, goal_state, expl) ==
    IF goal_test(state, goal_state) THEN "goal" ELSE "expand"

\* What general_search does with a popped node: the goal test comes first,
\* then the explored check, and only then the expansion.
step_kind(state, goal_state, expl) ==
    IF goal_test(state, goal_state) THEN "goal"
    ELSE IF state_to_tuple(state) \in expl THEN "skip"
    ELSE "expand"

\* The running maximum taken after the pop, on the shortened frontier.
sample_after_pop(max_queue_size, frontier) ==
    Max(max_queue_size, Len(frontier) - 1)

\* The running maximum of the frontier size, taken before the pop.
sample_queue(max_queue_size, frontier) ==
    Max(max_queue_size, Len(frontier))

\* The call of precompute_goal_pos left out: goal_pos stays as it was.
goal_pos_never_built(heuristic_func, goal_state, gp) == gp

\* goal_pos built on first use only and kept for every later run.
goal_pos_cached(heuristic_func, goal_state, gp) ==
    IF heuristic_func = "manhattan_distance_heuristic" /\ gp = <<>>
    THEN precompute_goal_pos(goal_state)
    ELSE gp

\* goal_pos when the root's h is computed: rebuilt for the Manhattan
\* heuristic, left as the previous run left it for the other two.
goal_pos_at_start(heuristic_func, goal_state, gp) ==
    IF heuristic_func = "manhattan_distance_heuristic"
    THEN precompute_goal_pos(goal_state)
    ELSE gp

\* ------------------------------------------------------------------ heapq
\* The heap is a list of arena indices; ns is the arena that orders them.
RECURSIVE siftdown(_, _, _, _, _)
siftdown(ns, heap, startpos, pos, newitem) ==
    IF pos > startpos /\ Lt(ns[newitem], ns[heap[pos \div 2]])
    THEN siftdown(ns, [heap EXCEPT ![pos] = heap[pos \div 2]],
                  startpos, pos \div 2, newitem)
    ELSE [heap EXCEPT ![pos] = newitem]

RECURSIVE siftup_walk(_, _, _, _)
siftup_walk(ns, heap, pos, newitem) ==
    LET endpos   == Len(heap)
        childpos == 2 * pos
        rightpos == childpos + 1
        pick     == IF rightpos <= endpos
                       /\ ~Lt(ns[heap[childpos]], ns[heap[rightpos]])
                    THEN rightpos ELSE childpos
    IN  IF childpos <= endpos
        THEN siftup_walk(ns, [heap EXCEPT ![pos] = heap[pick]], pick, newitem)
        ELSE <<[heap EXCEPT ![pos] = newitem], pos>>

siftup(ns, heap, pos) ==
    LET walked == siftup_walk(ns, heap, pos, heap[pos])
    IN  siftdown(ns, walked[1], pos, walked[2], heap[pos])

heappush(ns, heap, item) ==
    siftdown(ns, Append(heap, item), 1, Len(heap) + 1, item)

\* list.pop() in place of heappop: the last item of the list is removed.
heappop_last(ns, heap) ==
    <<heap[Len(heap)], SubSeq(heap, 1, Len(heap) - 1)>>

\* heappop: <<the popped item, the heap that remains>>.
heappop(ns, heap) ==
    LET lastelt == heap[Len(heap)]
        rest    == SubSeq(heap, 1, Len(heap) - 1)
    IN  IF rest # <<>>
        THEN <<heap[1], siftup(ns, [rest EXCEPT ![1] = lastelt], 1)>>
        ELSE <<lastelt, rest>>

\* The loop that pushes the successors not yet explored, in order.
RECURSIVE push_successors(_, _, _, _)
push_successors(ns, heap, ids, expl) ==
    IF ids = <<>> THEN heap
    ELSE push_successors(
            ns,
            IF state_to_tuple(ns[Head(ids)].state) \notin expl
            THEN heappush(ns, heap, Head(ids))
            ELSE heap,
            Tail(ids), expl)

\* The successors that the push loop lets through: those whose configuration
\* is not explored, or all of them when the push-time filter is taken out.
pushed_ids(ns, ids, expl, filtered) ==
    LET kept(id) == ~filtered \/ state_to_tuple(ns[id].state) \notin expl
    IN  SelectSeq(ids, kept)

\* The loop of general_search run to its end from the given locals, with the
\* push-time filter (filtered) or without it: what the run reports.
RECURSIVE run_loop(_, _, _, _, _, _, _, _, _)
run_loop(ns, heap, expl, count, pushes, goal, h, gp, filtered) ==
    IF heap = <<>>
    THEN [solved |-> FALSE, depth |-> -1, expanded |-> count,
          pushes |-> pushes]
    ELSE LET popped  == heappop(ns, heap)
             current == ns[popped[1]]
             kind    == step_kind(current.state, goal, expl)
             grown   == ns \o expand(current, popped[1], goal, h, gp)
             seen    == expl \cup {state_to_tuple(current.state)}
             ids     == pushed_ids(grown,
                                   [k \in 1..(Len(grown) - Len(ns)) |->
                                       Len(ns) + k],
                                   seen, filtered)
         IN  IF kind = "goal"
             THEN [solved |-> TRUE, depth |-> current.g_cost,
                   expanded |-> count, pushes |-> pushes]
             ELSE IF kind = "skip"
             THEN run_loop(ns, popped[2], expl, count, pushes, goal, h, gp,
                           filtered)
             ELSE run_loop(grown, push_successors(grown, popped[2], ids, {}),
                           seen, count + 1, pushes + Len(ids), goal, h, gp,
                           filtered)

\* general_search from the root node on, as the program has it
\* (filtered = TRUE) or pushing every successor (filtered = FALSE).
search_outcome(initial, goal, h, gp, filtered) ==
    run_loop(<<PuzzleNode(initial, None, "None", 0,
                          heuristic_call(h, initial, goal, gp))>>,
             <<1>>, {}, 0, 1, goal, h, gp, filtered)

\* reconstruct_path: the states from the node back to the root, reversed.
RECURSIVE parent_chain(_, _)
parent_chain(ns, current) ==
    IF current = None THEN <<>>
    ELSE <<ns[current].state>> \o parent_chain(ns, ns[current].parent)

\* The path as collected, goal first: the reversal left out.
reconstruct_path_unreversed(ns, goal_node) ==
    parent_chain(ns, goal_node)

reconstruct_path(ns, goal_node) ==
    LET path == parent_chain(ns, goal_node)
    IN  [k \in 1..Len(path) |-> path[Len(path) + 1 - k]]

\* ----------------------------------------------------------------- inputs
\* The goal of the main program for the n x n grid: 1..n*n-1, then the blank.
GOAL_STATE(n) ==
    [r \in 1..n |-> [c \in 1..n |->
        IF r = n /\ c = n THEN 0 ELSE (r - 1) * n + c]]

\* A second goal, with the blank first: 0, 1, ..., n*n-1.
BlankFirstGoal(n) ==
    [r \in 1..n |-> [c \in 1..n |-> (r - 1) * n + c - 1]]

\* Every arrangement of 0..n*n-1 on the n x n grid.
Arrangements(n) ==
    {g \in [1..n -> [1..n -> 0..(n * n - 1)]] :
        \A a, b \in (1..n) \X (1..n) : g[a[1]][a[2]] = g[b[1]][b[2]] => a = b}

\* Ground truth of the puzzle, stated apart from the program's expand: the
\* configurations one blank move away from s.
Exchange(s, a, b) ==
    [r \in 1..Len(s) |-> [c \in 1..Len(s) |->
        IF <<r, c>> = a THEN s[b[1]][b[2]]
        ELSE IF <<r, c>> = b THEN s[a[1]][a[2]]
        ELSE s[r][c]]]

Neighbours(s) ==
    {Exchange(s, a, b) : <<a, b>> \in
        {ab \in Cells(s) \X Cells(s) :
            /\ s[ab[1][1]][ab[1][2]] = 0
            /\ Abs(ab[1][1] - ab[2][1]) + Abs(ab[1][2] - ab[2][2]) = 1}}

RECURSIVE Within(_, _)
Within(s, k) ==
    IF k = 0 THEN {s}
    ELSE LET near == Within(s, k - 1)
         IN  near \cup UNION {Neighbours(x) : x \in near}

RECURSIVE Closure(_, _)
Closure(seen, layer) ==
    LET next == (UNION {Neighbours(x) : x \in layer}) \ seen
    IN  IF next = {} THEN seen ELSE Closure(seen \cup next, next)

Reachable(s) == Closure({s}, {s})

\* Breadth-first number of blank moves from s to goal; -1 when there is none.
RECURSIVE Bfs(_, _, _, _)
Bfs(seen, layer, goal, d) ==
    IF goal \in layer THEN d
    ELSE LET next == (UNION {Neighbours(x) : x \in layer}) \ seen
         IN  IF next = {} THEN -1 ELSE Bfs(seen \cup next, next, goal, d + 1)

Distance(s, goal) == Bfs({s}, {s}, goal, 0)

Goals(n) == {GOAL_STATE(n), BlankFirstGoal(n)}

\* <<initial configuration, goal configuration>> of the runs that are checked.
Puzzles ==
    {<<i, g>> : i \in Arrangements(2), g \in Goals(2)}
    \cup UNION {{<<i, g>> : i \in Within(g, MaxScramble)} : g \in Goals(3)}

\* ------------------------------------------------------------------ state
VARIABLES
    pc,               \* idle, called, loop, returned, traced, raised
    initial_state,    \* arguments of general_search
    goal_state,
    heuristic_func,
    goal_pos,         \* the module's global dict
    nodes,            \* every PuzzleNode created in this run
    grid_of,          \* per node, the list object its state refers to
    frontier,         \* the heap, a list of arena indices
    explored,
    expanded_count,
    max_queue_size,
    result,           \* the node returned, None when the search failed
    path,             \* what reconstruct_path returned
    log,              \* one entry per loop iteration: what it popped and did
    entry_goal_pos,   \* goal_pos as it was when the current call was made
    first_run,        \* the summary of the session's first run, once made
    runs_done         \* the number of runs the session has completed

vars == <<pc, initial_state, goal_state, heuristic_func, goal_pos, nodes,
          grid_of,
          frontier, explored, expanded_count, max_queue_size, result, path,
          log, entry_goal_pos, first_run, runs_done>>

run_vars == <<nodes, grid_of, frontier, explored, expanded_count, max_queue_size,
              result, path, log>>

Init ==
    /\ pc = "idle"
    /\ initial_state = <<>>
    /\ goal_state = <<>>
    /\ heuristic_func = "no_heuristic"
    /\ goal_pos = <<>>
    /\ nodes = <<>>
    /\ grid_of = <<>>
    /\ frontier = <<>>
    /\ explored = {}
    /\ expanded_count = 0
    /\ max_queue_size = 0
    /\ result = None
    /\ path = <<>>
    /\ log = <<>>
    /\ entry_goal_pos = <<>>
    /\ first_run = <<>>
    /\ runs_done = 0

\* The main program calls general_search(initial_state, goal, heuristic).
Call(i, g, h) ==
    /\ pc = "idle"
    /\ pc' = "called"
    /\ initial_state' = i
    /\ goal_state' = g
    /\ heuristic_func' = h
    /\ entry_goal_pos' = goal_pos
    /\ UNCHANGED <<goal_pos, run_vars, first_run, runs_done>>

\* general_search up to the loop: goal_pos, the root node, the containers.
Initialize ==
    /\ pc = "called"
    /\ goal_pos' = goal_pos_at_start(heuristic_func, goal_state, goal_pos)
    /\ IF heuristic_raises(heuristic_func, initial_state, goal_state, goal_pos')
       THEN /\ pc' = "raised"
            /\ UNCHANGED run_vars
       ELSE /\ pc' = "loop"
            /\ nodes' = <<PuzzleNode(initial_state, None, "None", 0,
                             heuristic_call(heuristic_func, initial_state,
                                            goal_state, goal_pos'))>>
            /\ grid_of' = <<CallerGrid>>
            /\ frontier' = <<1>>
            /\ explored' = {}
            /\ expanded_count' = 0
            /\ max_queue_size' = 1
            /\ result' = None
            /\ path' = <<>>
            /\ log' = <<>>
    /\ UNCHANGED <<initial_state, goal_state, heuristic_func, entry_goal_pos,
                   first_run, runs_done>>

\* `while frontier` is false: "Search failed", return None.
Exhausted ==
    /\ pc = "loop"
    /\ frontier = <<>>
    /\ pc' = "returned"
    /\ result' = None
    /\ UNCHANGED <<initial_state, goal_state, heuristic_func, goal_pos, nodes,
                   grid_of, frontier, explored, expanded_count, max_queue_size, path,
                   log, entry_goal_pos,
                   first_run, runs_done>>

\* One iteration of the loop: sample the frontier size, pop, test the goal,
\* then skip an explored configuration or expand the node.
Iterate ==
    /\ pc = "loop"
    /\ frontier # <<>>
    /\ \E popped \in {heappop(nodes, frontier)} :
       LET current      == popped[1]
           current_node == nodes[current]
           kind         == step_kind(current_node.state, goal_state, explored)
           entry(what)  == [kind |-> what, node |-> current,
                            qlen |-> Len(frontier)]
       IN  /\ max_queue_size' = sample_queue(max_queue_size, frontier)
           /\ IF kind = "goal"
              THEN /\ pc' = "returned"
                   /\ result' = current
                   /\ frontier' = popped[2]
                   /\ log' = Append(log, entry("goal"))
                   /\ UNCHANGED <<initial_state, nodes, grid_of, explored,
                                   expanded_count>>
              ELSE IF kind = "skip"
              THEN /\ frontier' = popped[2]
                   /\ log' = Append(log, entry("skip"))
                   /\ UNCHANGED <<pc, result, initial_state, nodes, grid_of,
                                   explored, expanded_count>>
              ELSE IF expand_raises(current_node, goal_state, heuristic_func,
                                    goal_pos)
              THEN /\ pc' = "raised"
                   /\ explored' = explored \cup
                                     {state_to_tuple(current_node.state)}
                   /\ expanded_count' = expanded_count + 1
                   /\ frontier' = popped[2]
                   /\ log' = Append(log, entry("expand"))
                   /\ UNCHANGED <<result, initial_state, nodes, grid_of>>
              ELSE \E successors \in {expand(current_node, current, goal_state,
                                             heuristic_func, goal_pos)} :
                   \E objects \in {new_grids(grid_of, current,
                                              Len(successors))} :
                   \E grown \in {write_states(nodes \o successors, objects,
                                              successors)} :
                   LET ids == [k \in 1..Len(successors) |-> Len(nodes) + k]
                   IN  /\ explored' = explored \cup
                                         {state_to_tuple(current_node.state)}
                       /\ expanded_count' = expanded_count + 1
                       /\ nodes' = grown
                       /\ grid_of' = objects
                       /\ initial_state' = grown[1].state
                       /\ frontier' = push_successors(grown, popped[2], ids,
                                                      explored')
                       /\ log' = Append(log, entry("expand"))
                       /\ UNCHANGED <<pc, result>>
    /\ UNCHANGED <<goal_state, heuristic_func, goal_pos, path,
                   entry_goal_pos, first_run, runs_done>>

\* reconstruct_path(solution_node) on the node a solved run returned.
Reconstruct ==
    /\ pc = "returned"
    /\ result # None
    /\ pc' = "traced"
    /\ path' = reconstruct_path(nodes, result)
    /\ UNCHANGED <<initial_state, goal_state, heuristic_func, goal_pos, nodes,
                   grid_of, frontier, explored, expanded_count, max_queue_size, result,
                   log, entry_goal_pos,
                   first_run, runs_done>>

\* The result summary the main program prints after a run.
Summary ==
    [initial   |-> initial_state,
     goal      |-> goal_state,
     heuristic |-> heuristic_func,
     solved    |-> result # None,
     depth     |-> IF result = None THEN -1 ELSE nodes[result].g_cost,
     expanded  |-> expanded_count,
     max_queue |-> max_queue_size]

\* The caller notes the summary of its first run and is ready to call
\* general_search once more.  The finished call's arguments and locals are
\* gone; the global goal_pos is whatever the run left behind.
Again ==
    /\ pc \in {"returned", "traced"}
    /\ runs_done < MaxRuns - 1
    /\ pc' = "idle"
    /\ runs_done' = runs_done + 1
    /\ first_run' = IF runs_done = 0 THEN <<Summary>> ELSE first_run
    /\ initial_state' = <<>>
    /\ goal_state' = <<>>
    /\ heuristic_func' = "no_heuristic"
    /\ nodes' = <<>>
    /\ grid_of' = <<>>
    /\ frontier' = <<>>
    /\ explored' = {}
    /\ expanded_count' = 0
    /\ max_queue_size' = 0
    /\ result' = None
    /\ path' = <<>>
    /\ log' = <<>>
    /\ UNCHANGED <<goal_pos, entry_goal_pos>>

\* The puzzles of a session of several runs: the two 2x2 goals and the 3x3
\* goal of the main program, each with the configurations at most
\* SessionScramble moves from it, and each 2x2 goal as the initial
\* configuration of a search for the other one, which it cannot reach.
SessionPuzzles ==
    UNION {{<<i, g>> : i \in Within(g, SessionScramble)} :
              g \in Goals(2) \cup {GOAL_STATE(3)}}
    \cup {<<BlankFirstGoal(2), GOAL_STATE(2)>>,
          <<GOAL_STATE(2), BlankFirstGoal(2)>>}

\* Malformed calls: every 2x2 grid over 0..4 that does not hold each of 0..3
\* exactly once (duplicates, missing values, a value out of range, no
\* blank), and a grid of two rows of three cells, each with the 2x2 goal of
\* the main program.
MalformedGrids ==
    ([1..2 -> [1..2 -> 0..4]] \ Arrangements(2))
    \cup {<<<<1, 2, 3>>, <<0, 4, 5>>>>}

Next ==
    \/ \E p \in Puzzles, h \in Heuristics : Call(p[1], p[2], h)
    \/ Initialize
    \/ Exhausted
    \/ Iterate
    \/ Reconstruct

Spec == Init /\ [][Next]_vars

NextSession ==
    \/ \E p \in SessionPuzzles, h \in Heuristics : Call(p[1], p[2], h)
    \/ Initialize
    \/ Exhausted
    \/ Iterate
    \/ Reconstruct
    \/ Again

SpecSession == Init /\ [][NextSession]_vars

\* The program is sequential: once called, general_search keeps executing
\* its next statement, so no enabled step of the call waits forever.
SpecLive ==
    /\ Init
    /\ [][Next]_vars
    /\ WF_vars(Initialize)
    /\ WF_vars(Iterate)
    /\ WF_vars(Exhausted)

\* general_search called on a malformed initial configuration.
NextMalformed ==
    \/ \E i \in MalformedGrids, h \in Heuristics : Call(i, GOAL_STATE(2), h)
    \/ Initialize
    \/ Exhausted
    \/ Iterate

SpecMalformed == Init /\ [][NextMalformed]_vars

\* ================================================================ claims
\* The loop iterations that expanded a node, in order.
IsExpansion(e) == e.kind = "expand"

Expansions == SelectSeq(log, IsExpansion)

\* s is an N x N grid holding each of 0..N*N-1 exactly once, N being the
\* size of the run's initial configuration.
IsPermutation(s) ==
    LET n == Len(initial_state)
    IN  /\ Len(s) = n
        /\ \A r \in 1..n : Len(s[r]) = n
        /\ \A v \in 0..(n * n - 1) :
              Cardinality({rc \in (1..n) \X (1..n) : s[rc[1]][rc[2]] = v}) = 1

\* C1: when the goal can be reached, general_search returns a goal node whose
\* g_cost is the breadth-first number of moves from the initial configuration
\* to the goal, whichever of the three heuristics is used.
C1_OptimalDepth ==
    (pc = "returned" /\ Distance(initial_state, goal_state) # -1)
        => /\ result # None
           /\ goal_test(nodes[result].state, goal_state)
           /\ nodes[result].g_cost = Distance(initial_state, goal_state)

\* A 3x3 run with the misplaced-tile heuristic that returned at depth 2.
C1_Witness ==
    /\ pc = "returned"
    /\ heuristic_func = "misplaced_tile_heuristic"
    /\ Len(initial_state) = 3
    /\ result # None
    /\ nodes[result].g_cost = 2
    /\ Distance(initial_state, goal_state) = 2

\* C2: the goal test comes before the explored check and the expansion: the
\* goal configuration is never put in the explored set, no expansion is ever
\* counted for it, the counter counts exactly the expansions logged, and a
\* run whose initial configuration is the goal returns at depth 0 with an
\* expansion count of 0.
C2_GoalTestFirst ==
    /\ pc \in {"loop", "returned", "traced"}
          => /\ state_to_tuple(goal_state) \notin explored
             /\ \A k \in 1..Len(log) :
                   log[k].kind = "expand"
                      => nodes[log[k].node].state # goal_state
             /\ expanded_count = Len(Expansions)
    /\ (pc = "returned" /\ result # None)
          => \A k \in 1..Len(log) :
                log[k].kind = "expand" => log[k].node # result
    /\ (pc = "returned" /\ initial_state = goal_state)
          => /\ result # None
             /\ nodes[result].g_cost = 0
             /\ expanded_count = 0

\* A Manhattan run that was handed the goal itself and has returned.
C2_Witness ==
    /\ pc = "returned"
    /\ initial_state = goal_state
    /\ heuristic_func = "manhattan_distance_heuristic"
    /\ result = 1
    /\ expanded_count = 0

\* C3: the search returns None, never raising, exactly when no sequence of
\* moves leads from the initial configuration to the goal, and it has then
\* expanded every configuration reachable from the initial one exactly once.
C3_ExhaustedIffUnreachable ==
    /\ pc # "raised"
    /\ pc = "returned"
          => /\ (result = None) <=> (Distance(initial_state, goal_state) = -1)
             /\ result = None
                   => /\ frontier = <<>>
                      /\ explored = Reachable(initial_state)
                      /\ expanded_count = Cardinality(Reachable(initial_state))
                      /\ \A j, k \in 1..Len(Expansions) :
                            nodes[Expansions[j].node].state
                               = nodes[Expansions[k].node].state => j = k

\* A 2x2 run that failed after expanding all 12 reachable configurations.
C3_Witness ==
    /\ pc = "returned"
    /\ result = None
    /\ expanded_count = 12
    /\ Distance(initial_state, goal_state) = -1

\* C4: the path reconstructed from the returned node starts at the initial
\* configuration, ends at the goal, has g_cost + 1 elements, and each
\* element follows from the one before by one move of the blank.
C4_PathCorrect ==
    pc = "traced"
        => /\ Len(path) = nodes[result].g_cost + 1
           /\ path[1] = initial_state
           /\ path[Len(path)] = goal_state
           /\ \A k \in 1..(Len(path) - 1) : path[k + 1] \in Neighbours(path[k])

\* A reconstructed path of three moves.
C4_Witness ==
    /\ pc = "traced"
    /\ Len(path) = 4
    /\ path[1] # path[4]

\* C5: with the zero heuristic the nodes are expanded in non-decreasing
\* order of g_cost.
C5_UniformCostOrder ==
    heuristic_func = "no_heuristic"
        => \A j, k \in 1..Len(Expansions) :
              j < k => nodes[Expansions[j].node].g_cost
                          <= nodes[Expansions[k].node].g_cost

\* A uniform-cost run whose last expansion is at depth 2 or more after at
\* least four expansions.
C5_Witness ==
    /\ heuristic_func = "no_heuristic"
    /\ pc \in {"loop", "returned"}
    /\ Len(Expansions) >= 4
    /\ nodes[Expansions[Len(Expansions)].node].g_cost >= 2

\* C6: every configuration held by a frontier node or recorded in the
\* explored set holds each value 0..N*N-1 exactly once.
C6_PermutationInvariant ==
    pc \in {"loop", "returned", "traced"}
        => /\ \A k \in 1..Len(frontier) : IsPermutation(nodes[frontier[k]].state)
           /\ \A t \in explored : IsPermutation(t)

\* A run in progress with explored configurations and a frontier of three.
C6_Witness ==
    /\ pc = "loop"
    /\ Cardinality(explored) >= 2
    /\ Len(frontier) >= 3

\* C7: within a session, a run with the same initial configuration, goal and
\* heuristic as the first run ends with the same solved flag, depth,
\* expansion count and maximum frontier size as the first run did, whatever
\* runs came in between and whatever they left in goal_pos; no run of the
\* session ends by raising instead of returning.
C7_SameInputsSameSummary ==
    /\ pc # "raised"
    /\ (/\ pc \in {"returned", "traced"}
        /\ first_run # <<>>
        /\ first_run[1].initial = initial_state
        /\ first_run[1].goal = goal_state
        /\ first_run[1].heuristic = heuristic_func)
          => Summary = first_run[1]

\* The third run of a session repeats the first, a solved Manhattan run,
\* after a Manhattan run for another goal has rewritten goal_pos.
C7_Witness ==
    /\ pc = "returned"
    /\ runs_done = 2
    /\ first_run[1].initial = initial_state
    /\ first_run[1].goal = goal_state
    /\ first_run[1].heuristic = heuristic_func
    /\ heuristic_func = "manhattan_distance_heuristic"
    /\ entry_goal_pos # <<>>
    /\ entry_goal_pos # precompute_goal_pos(goal_state)
    /\ result # None
    /\ expanded_count >= 1

\* C8: the misplaced-tile and the Manhattan estimate stored in a node never
\* exceed the breadth-first number of moves from the node's configuration to
\* the goal, when there is one, and they are 0 for the goal itself.
C8_Admissible ==
    heuristic_func \in {"misplaced_tile_heuristic",
                        "manhattan_distance_heuristic"}
        => \A k \in 1..Len(nodes) :
              /\ nodes[k].state = goal_state => nodes[k].h_cost = 0
              /\ nodes[k].h_cost >= 0
              /\ LET d == Distance(nodes[k].state, goal_state)
                 IN  d # -1 => nodes[k].h_cost <= d

\* A Manhattan run holding a node three moves from the goal with estimate 3
\* and a node for the goal itself.
C8_Witness ==
    /\ heuristic_func = "manhattan_distance_heuristic"
    /\ \E k \in 1..Len(nodes) :
          /\ nodes[k].h_cost = 3
          /\ Distance(nodes[k].state, goal_state) = 3
    /\ \E k \in 1..Len(nodes) : nodes[k].state = goal_state

\* C9: along every move made by expand, in either direction, the estimate
\* changes by at most 1 (h(s) <= 1 + h(s')), and so a successor's f_cost is
\* never below its parent's, for each of the three heuristics.
C9_Consistent ==
    \A k \in 1..Len(nodes) :
        nodes[k].parent # None
            => LET child  == nodes[k]
                   parent == nodes[child.parent]
               IN  /\ parent.h_cost <= 1 + child.h_cost
                   /\ child.h_cost <= 1 + parent.h_cost
                   /\ child.f_cost >= parent.f_cost
                   /\ child.f_cost = child.g_cost + child.h_cost

\* A misplaced-tile run with one successor whose estimate fell by 1 (equal
\* f_cost) and one whose estimate rose by 1 (f_cost up by 2).
C9_Witness ==
    /\ heuristic_func = "misplaced_tile_heuristic"
    /\ \E k \in 1..Len(nodes) :
          /\ nodes[k].parent # None
          /\ nodes[k].f_cost = nodes[nodes[k].parent].f_cost
          /\ nodes[k].h_cost = nodes[nodes[k].parent].h_cost - 1
    /\ \E k \in 1..Len(nodes) :
          /\ nodes[k].parent # None
          /\ nodes[k].f_cost = nodes[nodes[k].parent].f_cost + 2

\* C10: max_queue_size is 1 or more and is the largest frontier length seen
\* at the start of an iteration, before the pop; a length the frontier has
\* after the pushes counts once the next iteration begins with it.
C10_MaxQueueSampled ==
    pc \in {"loop", "returned", "traced"}
        => /\ max_queue_size >= 1
           /\ \A k \in 1..Len(log) : log[k].qlen <= max_queue_size
           /\ \/ max_queue_size = 1
              \/ \E k \in 1..Len(log) : log[k].qlen = max_queue_size
           /\ pc # "loop" => Len(frontier) < max_queue_size \/ frontier = <<>>

\* A run in progress whose last expansion pushed the frontier past the
\* recorded maximum, which the next iteration has yet to sample.
C10_Witness ==
    /\ pc = "loop"
    /\ Len(log) >= 2
    /\ Len(frontier) > max_queue_size
    /\ max_queue_size >= 3

\* C11: a call with a malformed initial configuration is rejected before
\* any node is expanded: it never reaches the search loop, it raises before
\* the root node exists, and nothing is ever counted as expanded.
C11_MalformedRejected ==
    (pc # "idle" /\ initial_state \in MalformedGrids)
        => /\ pc \in {"called", "raised"}
           /\ nodes = <<>>
           /\ expanded_count = 0

\* A step of the loop that popped a node: the log grew by one entry, whose
\* node is the one that was popped from the frontier of the state before.
Popped == Len(log') = Len(log) + 1

PoppedNode == nodes[log'[Len(log')].node]

\* C12: every pop removes a node of the frontier that is minimal in the order
\* (f_cost ascending, then g_cost ascending): no node of the frontier at the
\* moment of the pop has a smaller f_cost than the popped node, nor the same
\* f_cost and a smaller g_cost.
C12_PopsMinimum ==
    [][Popped =>
          /\ \E k \in 1..Len(frontier) : frontier[k] = log'[Len(log')].node
          /\ \A k \in 1..Len(frontier) :
                LET other == nodes[frontier[k]]
                IN  /\ other.f_cost >= PoppedNode.f_cost
                    /\ other.f_cost = PoppedNode.f_cost
                          => other.g_cost >= PoppedNode.g_cost]_vars

\* A run in progress that has popped at least three nodes and whose frontier
\* holds nodes of different f_cost.
C12_Witness ==
    /\ pc = "loop"
    /\ Len(log) >= 3
    /\ \E j, k \in 1..Len(frontier) :
          nodes[frontier[j]].f_cost < nodes[frontier[k]].f_cost

\* C13 as stated: among frontier nodes of equal f_cost the deeper one goes
\* first, so no node with the popped node's f_cost and a larger g_cost is in
\* the frontier at the moment of the pop.
C13_DeeperFirst ==
    [][Popped =>
          \A k \in 1..Len(frontier) :
             nodes[frontier[k]].f_cost = PoppedNode.f_cost
                => nodes[frontier[k]].g_cost <= PoppedNode.g_cost]_vars

\* C13 as amended: among frontier nodes of equal f_cost the shallower one
\* goes first: no node with the popped node's f_cost and a smaller g_cost is
\* in the frontier at the moment of the pop.
C13_ShallowerFirst ==
    [][Popped =>
          \A k \in 1..Len(frontier) :
             nodes[frontier[k]].f_cost = PoppedNode.f_cost
                => nodes[frontier[k]].g_cost >= PoppedNode.g_cost]_vars

\* The last pop took the shallower of two frontier nodes of equal f_cost:
\* a node with the popped node's f_cost and a larger g_cost is still waiting.
C13_Witness ==
    /\ pc = "loop"
    /\ log # <<>>
    /\ \E k \in 1..Len(frontier) :
          /\ nodes[frontier[k]].f_cost = nodes[log[Len(log)].node].f_cost
          /\ nodes[frontier[k]].g_cost > nodes[log[Len(log)].node].g_cost

\* C14: every call on a valid configuration returns: the loop ends by
\* popping a goal node or on an empty frontier, and never by raising.
C14_Terminates ==
    /\ [](pc # "raised")
    /\ (pc = "called") ~> (pc = "returned")

\* A call that has returned a goal node after six or more iterations.
C14_Witness ==
    /\ pc = "returned"
    /\ result # None
    /\ Len(log) >= 6

\* A step of the loop that expanded the popped node and pushed successors.
Expanded ==
    /\ Popped
    /\ log'[Len(log')].kind = "expand"
    /\ pc' = "loop"

Directions == <<"Up", "Down", "Left", "Right">>

Destination(b, d) ==
    CASE d = "Up"    -> <<b[1] - 1, b[2]>>
      [] d = "Down"  -> <<b[1] + 1, b[2]>>
      [] d = "Left"  -> <<b[1], b[2] - 1>>
      [] d = "Right" -> <<b[1], b[2] + 1>>

\* The cell of s that holds the blank.
BlankOf(s) == CHOOSE rc \in Cells(s) : s[rc[1]][rc[2]] = 0

\* The directions, in the fixed order, that keep the blank of s on the grid.
InGrid(s) ==
    LET inside(d) == Destination(BlankOf(s), d) \in Cells(s)
    IN  SelectSeq(Directions, inside)

\* C15: an expansion appends exactly one successor per direction Up, Down,
\* Left, Right that stays on the grid, in that order (2 at a corner, 3 at an
\* edge, 4 in the interior); each successor's configuration is the parent's
\* with the blank and the destination exchanged, its g_cost is the parent's
\* plus one, its h_cost the heuristic of the new configuration, its f_cost
\* their sum, its parent the expanded node and its action the direction.
C15_ExpandSuccessors ==
    [][Expanded =>
          LET id     == log'[Len(log')].node
              parent == nodes[id]
              b      == BlankOf(parent.state)
              dirs   == InGrid(parent.state)
              n      == Len(parent.state)
              sides  == (IF b[1] \in {1, n} THEN 1 ELSE 0)
                        + (IF b[2] \in {1, n} THEN 1 ELSE 0)
          IN  /\ Len(nodes') = Len(nodes) + Len(dirs)
              /\ SubSeq(nodes', 1, Len(nodes)) = nodes
              /\ Len(dirs) = 4 - sides
              /\ \A k \in 1..Len(dirs) :
                    LET child == nodes'[Len(nodes) + k]
                        dest  == Destination(b, dirs[k])
                    IN  /\ child.action = dirs[k]
                        /\ child.parent = id
                        /\ child.state = Exchange(parent.state, b, dest)
                        /\ child.g_cost = parent.g_cost + 1
                        /\ child.h_cost =
                              heuristic_call(heuristic_func, child.state,
                                             goal_state, goal_pos)
                        /\ child.f_cost = child.g_cost + child.h_cost]_vars

\* An interior, an edge and a corner blank have all been expanded in one run
\* on the 3 x 3 grid, the interior one into four successors.
C15_Witness ==
    /\ Len(initial_state) = 3
    /\ \E e \in 1..Len(log) :
          /\ log[e].kind = "expand"
          /\ nodes[log[e].node].state[2][2] = 0
          /\ Cardinality({k \in 1..Len(nodes) :
                              nodes[k].parent = log[e].node}) = 4
    /\ \E e \in 1..Len(log) :
          /\ log[e].kind = "expand"
          /\ nodes[log[e].node].state[1][2] = 0
          /\ Cardinality({k \in 1..Len(nodes) :
                              nodes[k].parent = log[e].node}) = 3
    /\ \E e \in 1..Len(log) :
          /\ log[e].kind = "expand"
          /\ nodes[log[e].node].state[1][1] = 0
          /\ Cardinality({k \in 1..Len(nodes) :
                              nodes[k].parent = log[e].node}) = 2

\* C16: once a node exists, no step of the run changes its configuration,
\* g_cost, h_cost, f_cost, parent or action; the caller's initial
\* configuration and the goal configuration stay as they were passed; and
\* the tuples of the explored set are at all times the configurations of the
\* nodes that were expanded.
C16_NothingMutated ==
    /\ [][pc # "idle" =>
             /\ Len(nodes') >= Len(nodes)
             /\ \A k \in 1..Len(nodes) : nodes'[k] = nodes[k]
             /\ initial_state' = initial_state
             /\ goal_state' = goal_state]_vars
    /\ [](explored = {state_to_tuple(nodes[Expansions[e].node].state) :
                         e \in 1..Len(Expansions)})
    /\ [](nodes # <<>> => nodes[1].state = initial_state)

\* A solved run that expanded the root and at least two of its descendants.
C16_Witness ==
    /\ pc = "returned"
    /\ result # None
    /\ Len(Expansions) >= 3
    /\ \E e \in 1..Len(Expansions) : nodes[Expansions[e].node].g_cost >= 2

\* A step of the loop that discarded the popped node as stale.
Discarded ==
    /\ Popped
    /\ log'[Len(log')].kind = "skip"

\* C17: no configuration is expanded twice in a run; a popped node that is
\* not a goal and whose configuration is already explored is discarded, the
\* step leaving the expansion counter, the explored set and the nodes as they
\* were and the frontier one shorter, and a popped non-goal node whose
\* configuration is not explored is expanded; the expansion counter equals
\* the size of the explored set in every state.
C17_ExpandedOnce ==
    /\ [](\A a, b \in 1..Len(Expansions) :
             nodes[Expansions[a].node].state = nodes[Expansions[b].node].state
                => a = b)
    /\ [](expanded_count = Cardinality(explored))
    /\ [][Popped =>
             /\ Discarded <=>
                   /\ ~goal_test(PoppedNode.state, goal_state)
                   /\ state_to_tuple(PoppedNode.state) \in explored
             /\ Discarded =>
                   /\ expanded_count' = expanded_count
                   /\ explored' = explored
                   /\ nodes' = nodes
                   /\ Len(frontier') = Len(frontier) - 1
                   /\ pc' = pc]_vars

\* A stale node has been popped and discarded after some expansions.
C17_Witness ==
    /\ pc = "loop"
    /\ expanded_count >= 2
    /\ \E e \in 1..Len(log) : log[e].kind = "skip"

\* C18: a node discarded as stale has a g_cost no smaller than the g_cost
\* with which its configuration was expanded earlier in the run, and every
\* node that is expanded has as g_cost the breadth-first number of moves
\* from the initial configuration to its configuration, whichever of the
\* three heuristics is used.
C18_ExpandedAtMinimalCost ==
    [][Popped =>
          /\ Discarded =>
                \E e \in 1..Len(Expansions) :
                   LET first == nodes[Expansions[e].node]
                   IN  /\ first.state = PoppedNode.state
                       /\ first.g_cost <= PoppedNode.g_cost
          /\ log'[Len(log')].kind = "expand" =>
                PoppedNode.g_cost = Distance(initial_state, PoppedNode.state)]_vars

\* A run with the Manhattan heuristic discarded a node whose configuration
\* it had expanded before, both at two moves or more from the start.
C18_Witness ==
    /\ heuristic_func = "manhattan_distance_heuristic"
    /\ \E k \in 1..Len(log), e \in 1..Len(Expansions) :
          /\ log[k].kind = "skip"
          /\ nodes[Expansions[e].node].state = nodes[log[k].node].state
          /\ nodes[Expansions[e].node].g_cost >= 2

\* What the finished run reports, and what the same call reports with and
\* without the push-time filter.
Reported ==
    [solved |-> result # None,
     depth |-> IF result = None THEN -1 ELSE nodes[result].g_cost,
     expanded |-> expanded_count]

Filtered ==
    search_outcome(initial_state, goal_state, heuristic_func, goal_pos, TRUE)

Unfiltered ==
    search_outcome(initial_state, goal_state, heuristic_func, goal_pos, FALSE)

\* C19: the search that pushes every successor, explored or not, reports
\* the same solved flag, the same solution depth and the same number of
\* expansions as general_search does on the same input and heuristic.
C19_FilterRedundant ==
    pc = "returned"
        => /\ Filtered.solved = Reported.solved
           /\ Filtered.depth = Reported.depth
           /\ Filtered.expanded = Reported.expanded
           /\ Unfiltered.solved = Reported.solved
           /\ Unfiltered.depth = Reported.depth
           /\ Unfiltered.expanded = Reported.expanded

\* C19, as the program has it: the search that pushes every successor
\* reports the same solved flag and the same solution depth as general_search
\* does, and the same number of expansions when no goal is found; when a goal
\* is found its number of expansions may differ, the extra stale nodes
\* changing the order in which the heap yields nodes of equal f_cost and
\* g_cost.
C19_FilterKeepsOutcome ==
    pc = "returned"
        => /\ Filtered.solved = Reported.solved
           /\ Filtered.depth = Reported.depth
           /\ Filtered.expanded = Reported.expanded
           /\ Unfiltered.solved = Reported.solved
           /\ Unfiltered.depth = Reported.depth
           /\ result = None => Unfiltered.expanded = Reported.expanded

\* A solved run for which the search without the filter pushes more nodes
\* and makes a different number of expansions.
C19_Witness ==
    /\ pc = "returned"
    /\ result # None
    /\ Unfiltered.pushes > Filtered.pushes
    /\ Unfiltered.expanded # expanded_count

\* The cell of the grid s that holds the tile t.
CellOf(s, t) == CHOOSE rc \in Cells(s) : s[rc[1]][rc[2]] = t

\* The Manhattan estimate read off the two grids, without goal_pos: the sum
\* over the tiles other than the blank of the row and column offsets.
ManhattanTo(s, goal) ==
    LET tiles == 1..(Len(goal) * Len(goal) - 1)
        offset(t) == Abs(CellOf(s, t)[1] - CellOf(goal, t)[1])
                     + Abs(CellOf(s, t)[2] - CellOf(goal, t)[2])
        RECURSIVE total(_)
        total(t) == IF t = 0 THEN 0 ELSE total(t - 1) + offset(t)
    IN  total(Len(goal) * Len(goal) - 1)

\* C20: in a run with the Manhattan heuristic, from the root node on,
\* goal_pos maps every value of the run's goal configuration, and nothing
\* else, to the cell that holds it there, and the h_cost of every node is the
\* sum over the tiles other than the blank of the row and column offsets to
\* that goal, whatever an earlier run of the session left in goal_pos;
\* goal_pos is written by no step but the one that starts a run.
C20_GoalPosPerRun ==
    /\ []((/\ heuristic_func = "manhattan_distance_heuristic"
           /\ pc \in {"loop", "returned", "traced"})
             => /\ DOMAIN goal_pos =
                      0..(Len(goal_state) * Len(goal_state) - 1)
                /\ \A rc \in Cells(goal_state) :
                      goal_pos[goal_state[rc[1]][rc[2]]] = rc
                /\ \A k \in 1..Len(nodes) :
                      nodes[k].h_cost = ManhattanTo(nodes[k].state, goal_state))
    /\ [][pc # "called" => goal_pos' = goal_pos]_vars
    /\ [][(pc = "called" /\ pc' = "loop"
              /\ heuristic_func = "manhattan_distance_heuristic")
             => goal_pos' = [t \in 0..(Len(goal_state) * Len(goal_state) - 1)
                               |-> CellOf(goal_state, t)]]_vars

\* A Manhattan run that expanded nodes and returned, entered with the
\* goal_pos of an earlier Manhattan run for a goal of another size.
C20_Witness ==
    /\ pc = "returned"
    /\ heuristic_func = "manhattan_distance_heuristic"
    /\ runs_done >= 1
    /\ entry_goal_pos # <<>>
    /\ DOMAIN entry_goal_pos # DOMAIN goal_pos
    /\ expanded_count >= 1
    /\ \E k \in 1..Len(nodes) : nodes[k].h_cost >= 2

====
